---- MODULE Spec2Model ----
(***************************************************************************)
(* State-machine model of the AyurTrace farmer API (src/server.js): the    *)
(* Express handlers POST /dev/seed-species, POST /collection,              *)
(* POST /processing, POST /labtest, the PATCH endpoints of the anchoring   *)
(* side and GET /provenance over the five Mongoose collections, the        *)
(* helpers stableStringify, speciesCodeFor and the gate expression on      *)
(* their own, and the startup of the process (connectToMongoDB).           *)
(*                                                                         *)
(* Every awaited store call of a handler is one atomic action, so          *)
(* concurrent requests interleave exactly at the awaits of the code.       *)
(* Strings are sequences of one-character strings, so that split, slice,   *)
(* toUpperCase, padStart and template concatenation are computed.          *)
(* The unique indexes the schemas declare are taken to be in force.        *)
(* crypto.randomBytes ids are modelled as fresh values.                    *)
(***************************************************************************)
EXTENDS Integers, Sequences, FiniteSets, TLC

VARIABLES
    species,    \* the Species collection
    batches,    \* the Batch collection
    events,     \* the CollectionEvent collection
    steps,      \* the ProcessingStep collection
    labTests,   \* the LabTest collection
    req,        \* the requests in flight: each one's body, position and locals
    res,        \* the response the last step sent, with the body it answers
    proc        \* the server process: its startup position and flags

vars == <<species, batches, events, steps, labTests, req, res, proc>>

store == <<species, batches, events, steps, labTests>>

----------------------------------------------------------------------------
\* Bounds of the model

\* collection events stored or being created
MaxEvents == 2
\* processing steps stored, when /collection and /processing are served
MaxSteps == 2
\* processing steps stored, when /labtest is served too
MaxBatchSteps == 1
\* lab tests stored
MaxLabTests == 1
\* lab tests stored where lab tests follow one another
MaxBatchLabTests == 2
\* provenance requests in flight
MaxProvenance == 1

\* the requests that can be in flight at once
Slots == {1, 2}

----------------------------------------------------------------------------
\* JavaScript values

\* Values without character structure (tokens, step types, statuses, phases)
\* are TLA+ strings; undefined and null are two of them.
Undefined == "undefined"
Null == "null"

\* if (x), for such a value: undefined, null and "" are falsy
Truthy(x) == x # Undefined /\ x # Null /\ x # ""

\* a || b
OrElse(a, b) == IF Truthy(a) THEN a ELSE b

----------------------------------------------------------------------------
\* Strings as sequences of characters

Lower == <<"a","b","c","d","e","f","g","h","i","j","k","l","m",
           "n","o","p","q","r","s","t","u","v","w","x","y","z">>
Upper == <<"A","B","C","D","E","F","G","H","I","J","K","L","M",
           "N","O","P","Q","R","S","T","U","V","W","X","Y","Z">>

\* String.prototype.toUpperCase, one character
UpperChar(c) ==
    IF \E i \in 1..Len(Lower) : Lower[i] = c
    THEN Upper[CHOOSE i \in 1..Len(Lower) : Lower[i] = c]
    ELSE c

toUpperCase(s) == [i \in 1..Len(s) |-> UpperChar(s[i])]

\* s.slice(0, n)
SliceTo(s, n) == SubSeq(s, 1, IF Len(s) < n THEN Len(s) ELSE n)

\* s.split(" ")[0]: the characters before the first space
FirstToken(s) ==
    IF \E i \in 1..Len(s) : s[i] = " "
    THEN SubSeq(s, 1, (CHOOSE i \in 1..Len(s) :
                          s[i] = " " /\ \A j \in 1..(i-1) : s[j] # " ") - 1)
    ELSE s

DigitChars == <<"0","1","2","3","4","5","6","7","8","9">>

\* String(n) for 0 <= n < 10000 without leading zeros
RECURSIVE NumStr(_)
NumStr(n) == IF n < 10 THEN <<DigitChars[n + 1]>>
             ELSE NumStr(n \div 10) \o <<DigitChars[(n % 10) + 1]>>

\* String(n).padStart(2, "0")
PadStart2(n) == IF Len(NumStr(n)) < 2 THEN <<"0">> \o NumStr(n) ELSE NumStr(n)

----------------------------------------------------------------------------
\* Dates: an instant is a number of hours since 2025-01-01T00:00:00Z

MonthLengths == <<31, 28, 31, 30, 31, 30, 31, 31, 30, 31, 30, 31>>

RECURSIVE DaysBeforeMonth(_)
DaysBeforeMonth(m) == IF m = 1 THEN 0 ELSE DaysBeforeMonth(m - 1) + MonthLengths[m - 1]

\* zero-based day of the year of an instant, in UTC
DayOfYear(ts) == ts \div 24

getUTCFullYear(ts) == 2025

\* getUTCMonth() + 1
UTCMonth1(ts) ==
    CHOOSE m \in 1..12 :
        /\ DaysBeforeMonth(m) <= DayOfYear(ts)
        /\ DayOfYear(ts) < DaysBeforeMonth(m) + MonthLengths[m]

getUTCDate(ts) == DayOfYear(ts) - DaysBeforeMonth(UTCMonth1(ts)) + 1

\* isoZ(d).slice(0,10): YYYY-MM-DD
IsoDate(ts) ==
    NumStr(getUTCFullYear(ts)) \o <<"-">> \o PadStart2(UTCMonth1(ts))
        \o <<"-">> \o PadStart2(getUTCDate(ts))

----------------------------------------------------------------------------
\* Inputs the requests are drawn from

\* "withania somnifera" (abbreviated after the space)
ScientificNames == { <<"w","i","t","h","a","n","i","a"," ","s">> }

\* species codes a seed request can carry
SeedCodes == { <<"A","S","H","W","A">> }

CollectorIds == { <<"f","a","r","m","-","1">> }

\* 2025-09-16T09:00Z, 2025-09-16T23:00Z, 2025-09-17T00:00Z
Timestamps == { 6201, 6215, 6216 }

\* clientEventId: absent, or one of two tokens
ClientEventIds == { Undefined, "event-001", "event-002" }

GeoSent == [lat |-> 28, lng |-> 77]

----------------------------------------------------------------------------
\* Helpers of server.js

\* index of the Species document of a name, 0 when findOne gives null
SpeciesIndex(scientificName) ==
    IF \E i \in 1..Len(species) : species[i].scientificName = scientificName
    THEN CHOOSE i \in 1..Len(species) : species[i].scientificName = scientificName
    ELSE 0

\* (scientificName.split(" ")[0] || "SPEC").slice(0,5).toUpperCase()
FallbackCode(scientificName) ==
    toUpperCase(SliceTo(IF FirstToken(scientificName) # <<>>
                        THEN FirstToken(scientificName)
                        ELSE <<"S","P","E","C">>, 5))

speciesCodeFor(scientificName) ==
    LET i == SpeciesIndex(scientificName) IN
    IF i # 0 /\ species[i].speciesCode # <<>>
    THEN species[i].speciesCode
    ELSE FallbackCode(scientificName)

\* speciesCodeFor applied to a scientific name
SpeciesCodeEvaluated(scientificName) ==
    /\ res' = [ kind |-> "code", body |-> scientificName,
                resp |-> speciesCodeFor(scientificName) ]
    /\ UNCHANGED <<species, batches, events, steps, labTests, req, proc>>

\* `B-${code}-${y}${m}${day}-${collectorId}`
makeBatchId(code, ts, collectorId) ==
    <<"B","-">> \o code \o <<"-">>
        \o NumStr(getUTCFullYear(ts)) \o PadStart2(UTCMonth1(ts)) \o PadStart2(getUTCDate(ts))
        \o <<"-">> \o collectorId

\* sha256Hex(id + ":" + batch_id): a digest is modelled as its preimage
sha256Hex(v) == [sha256 |-> v]

----------------------------------------------------------------------------
\* The store: each collection is the sequence of its documents in insertion order

\* index of the document with an id, 0 when there is none
IndexById(coll, id) ==
    IF \E i \in 1..Len(coll) : coll[i].id = id
    THEN CHOOSE i \in 1..Len(coll) : coll[i].id = id
    ELSE 0

\* a plain insert where the upsert is: the document is stored even when one
\* with the id exists
UpsertAlwaysInsert(coll, id, doc) == Append(coll, doc)

\* $set where $setOnInsert is: an existing document takes the fields again
UpsertOverwrite(coll, id, doc) ==
    IF IndexById(coll, id) # 0
    THEN [i \in 1..Len(coll) |-> IF i = IndexById(coll, id) THEN doc ELSE coll[i]]
    ELSE Append(coll, doc)

\* updateOne({ id }, { $setOnInsert: doc }, { upsert: true })
UpsertSetOnInsert(coll, id, doc) ==
    IF IndexById(coll, id) # 0 THEN coll ELSE Append(coll, doc)

\* an update that sets a field only while it holds its initial value
BatchSetOnce(coll, id, field, value) ==
    [ i \in 1..Len(coll) |->
        IF coll[i].id = id /\ coll[i][field] \in {"CREATED", "PENDING"}
        THEN [coll[i] EXCEPT ![field] = value]
        ELSE coll[i] ]

\* updateOne({ id }, { $set: { [field]: value } }) on Batch: no upsert
BatchSet(coll, id, field, value) ==
    [i \in 1..Len(coll) |->
        IF i = IndexById(coll, id)
        THEN (IF field = "statusPhase" THEN [coll[i] EXCEPT !.statusPhase = value]
              ELSE [coll[i] EXCEPT !.qualityGate = value])
        ELSE coll[i]]

\* the qrserver link carries the URI-encoded JSON of the batch info
QrCodeUrl(batchInfoRaw) == [data |-> batchInfoRaw]

\* the inserted document without the defaults of the schema
NewBatchDocNoDefaults(batchId, scientificName, collectorId, dateUtc) ==
    [ id |-> batchId,
      scientificName |-> scientificName,
      collectorId |-> collectorId,
      dateUtc |-> dateUtc,
      statusPhase |-> "CREATED",
      qualityGate |-> Undefined,
      qrCodeUrl |-> QrCodeUrl([ id |-> batchId, scientificName |-> scientificName,
                                collectorId |-> collectorId, dateUtc |-> dateUtc,
                                statusPhase |-> "CREATED" ]) ]

\* the document an inserting upsert of POST /collection stores: the
\* $setOnInsert fields and the defaults of the Batch schema
NewBatchDoc(batchId, scientificName, collectorId, dateUtc) ==
    [ id |-> batchId,
      scientificName |-> scientificName,
      collectorId |-> collectorId,
      dateUtc |-> dateUtc,
      statusPhase |-> "CREATED",
      qualityGate |-> "PENDING",
      qrCodeUrl |-> QrCodeUrl([ id |-> batchId, scientificName |-> scientificName,
                                collectorId |-> collectorId, dateUtc |-> dateUtc,
                                statusPhase |-> "CREATED" ]) ]

\* index of the event CollectionEvent.findOne({ clientEventId }) gives, 0 for null
EventIndexByClientEventId(clientEventId) ==
    IF \E i \in 1..Len(events) : events[i].clientEventId = clientEventId
    THEN CHOOSE i \in 1..Len(events) : events[i].clientEventId = clientEventId
    ELSE 0

\* a sparse index holds the documents that have the field, a null value included
InSparseIndex(v) == v # Undefined

\* CollectionEvent with its id index alone
EventDuplicateKeyIdOnly(doc) ==
    \E i \in 1..Len(events) : events[i].id = doc.id

\* the unique indexes of CollectionEvent (id; clientEventId, sparse) reject doc
EventDuplicateKey(doc) ==
    \E i \in 1..Len(events) :
        \/ events[i].id = doc.id
        \/ /\ InSparseIndex(doc.clientEventId)
           /\ events[i].clientEventId = doc.clientEventId

----------------------------------------------------------------------------
\* Requests

IdleReq == [kind |-> "none", pc |-> "idle"]

NoResponse == [kind |-> "none"]

\* the number of requests of a kind in flight
InFlight(kind) == Cardinality({r \in Slots : req[r].kind = kind})

\* a request takes the first free slot
FirstFree(r) ==
    /\ req[r].pc = "idle"
    /\ \A q \in Slots : q < r => req[q].pc # "idle"

\* res.status(..).json(..): the request leaves with its response
Respond(r, kind, body, resp) ==
    /\ req' = [req EXCEPT ![r] = IdleReq]
    /\ res' = [kind |-> kind, body |-> body, resp |-> resp]

\* the collections of a fresh database, and no request received yet
EmptyStore ==
    /\ species = <<>>
    /\ batches = <<>>
    /\ events = <<>>
    /\ steps = <<>>
    /\ labTests = <<>>
    /\ req = [r \in Slots |-> IdleReq]
    /\ res = NoResponse

----------------------------------------------------------------------------
\* Startup: connectToMongoDB(connectionUri), startServerOnce
\*
\* pc is "connect" while mongoose.connect is awaited, "listening" once
\* app.listen has been called, "exited" after process.exit(1); attempts
\* counts the calls of mongoose.connect, listens the calls of app.listen
\* that returned, connected tells whether a call of mongoose.connect has
\* resolved; hasAlternative is alternativeUri !== null, and portValid tells
\* whether app.listen(PORT) accepts PORT (it throws on a port out of range).

\* the process when the module has been loaded: connectToMongoDB(connectionUri)
\* has run up to its await
Loaded(hasAlternative, portValid) ==
    [ pc |-> "connect", isRetry |-> FALSE, serverStarted |-> FALSE,
      attempts |-> 1, listens |-> 0, connected |-> FALSE,
      hasAlternative |-> hasAlternative, portValid |-> portValid ]

\* the process that connected at the first attempt and listens
Serving ==
    [ pc |-> "listening", isRetry |-> FALSE, serverStarted |-> TRUE,
      attempts |-> 1, listens |-> 1, connected |-> TRUE,
      hasAlternative |-> FALSE, portValid |-> TRUE ]

\* a catch block that starts the server when the last attempt has failed
CaughtListens(p) ==
    IF ~p.isRetry /\ p.hasAlternative
    THEN [p EXCEPT !.pc = "connect", !.isRetry = TRUE, !.attempts = @ + 1]
    ELSE [p EXCEPT !.pc = "listening", !.serverStarted = TRUE, !.listens = @ + 1]

\* catch (error): if (!isRetry && alternativeUri) return
\* connectToMongoDB(alternativeUri, true); else process.exit(1)
Caught(p) ==
    IF ~p.isRetry /\ p.hasAlternative
    THEN [p EXCEPT !.pc = "connect", !.isRetry = TRUE, !.attempts = @ + 1]
    ELSE [p EXCEPT !.pc = "exited"]

\* startServerOnce(), called in the try block: app.listen(PORT) and
\* serverStarted = true unless the server has started; an exception of
\* app.listen is caught by the catch block
startServerOnce(p) ==
    IF p.serverStarted THEN [p EXCEPT !.pc = "listening"]
    ELSE IF p.portValid
    THEN [p EXCEPT !.pc = "listening", !.serverStarted = TRUE, !.listens = @ + 1]
    ELSE Caught(p)

\* await mongoose.connect(uri, ...) resolves; startServerOnce()
ConnectResolves ==
    /\ proc.pc = "connect"
    /\ proc' = startServerOnce([proc EXCEPT !.connected = TRUE])
    /\ UNCHANGED <<species, batches, events, steps, labTests, req, res>>

\* await mongoose.connect(uri, ...) rejects
ConnectRejects ==
    /\ proc.pc = "connect"
    /\ proc' = Caught(proc)
    /\ UNCHANGED <<species, batches, events, steps, labTests, req, res>>

\* the state the API is served from: a fresh database, the server listening
Init == EmptyStore /\ proc = Serving

\* the state after the module has been loaded
InitStartup ==
    /\ EmptyStore
    /\ \E hasAlternative \in BOOLEAN, portValid \in BOOLEAN :
          proc = Loaded(hasAlternative, portValid)

----------------------------------------------------------------------------
\* POST /dev/seed-species

\* POST /dev/seed-species: Species.updateOne({ scientificName }, { $set: s }, { upsert: true })
SeedSpecies(scientificName, speciesCode) ==
    /\ species' =
          IF SpeciesIndex(scientificName) # 0
          THEN [species EXCEPT ![SpeciesIndex(scientificName)].speciesCode = speciesCode]
          ELSE Append(species, [scientificName |-> scientificName,
                                speciesCode |-> speciesCode])
    /\ res' = [kind |-> "seed",
               body |-> [scientificName |-> scientificName, speciesCode |-> speciesCode],
               resp |-> [status |-> 200, ok |-> TRUE]]
    /\ UNCHANGED <<batches, events, steps, labTests, req, proc>>

\* the ai of an event: null, the empty object, or { confidence: c }
NullAi == [ null |-> TRUE ]

EmptyObject == [ empty |-> TRUE ]

\* ai_verified_confidence !== undefined
HasConfidence(body) == "ai_verified_confidence" \in DOMAIN body

\* ai_verified_confidence !== undefined ? { confidence: ai_verified_confidence } : null
AiOf(body) ==
    IF HasConfidence(body) THEN [ confidence |-> body.ai_verified_confidence ]
    ELSE NullAi

\* ai || {}
AiOrEmpty(ai) == IF ai = NullAi THEN EmptyObject ELSE ai

\* const { ..., geo, ... } = req.body: whether the request carried a geo
HasGeo(x) == "geo" \in DOMAIN x

\* the object literal { ..., geo, ... }: a property whose value is undefined
\* is neither stored by Mongoose nor serialised by res.json
WithGeo(doc, src) ==
    IF HasGeo(src)
    THEN [ f \in DOMAIN doc \cup {"geo"} |-> IF f = "geo" THEN src.geo ELSE doc[f] ]
    ELSE doc

----------------------------------------------------------------------------
\* POST /collection

\* the request arrives; the handler runs up to its first await
CollectionReceive(r, body) ==
    /\ FirstFree(r)
    /\ req' = [req EXCEPT ![r] =
                 [ kind |-> "collection",
                   pc |-> IF Truthy(body.clientEventId) THEN "idempotency"
                          ELSE "speciesCode",
                   body |-> body ]]
    /\ res' = NoResponse
    /\ UNCHANGED <<species, batches, events, steps, labTests, proc>>

\* a replay that derives the batch id again instead of reading the stored one
ReplayResponseRecomputed(exists) ==
    [ status |-> 200,
      collectionEvent |-> WithGeo(
        [ id |-> exists.id,
          scientificName |-> exists.scientificName,
          collectorId |-> exists.collectorId,
          timestamp |-> exists.timestampUtc,
          ai |-> AiOrEmpty(exists.ai),
          status |-> exists.status,
          violations |-> exists.violations,
          hash |-> OrElse(exists.hash, Null) ], exists),
      batch |-> [ id |-> makeBatchId(speciesCodeFor(exists.scientificName),
                                     exists.timestampUtc, exists.collectorId),
                  status_phase |-> "CREATED" ] ]

\* res.json of the idempotent replay
ReplayResponse(exists) ==
    [ status |-> 200,
      collectionEvent |-> WithGeo(
        [ id |-> exists.id,
          scientificName |-> exists.scientificName,
          collectorId |-> exists.collectorId,
          timestamp |-> exists.timestampUtc,
          ai |-> AiOrEmpty(exists.ai),
          status |-> exists.status,
          violations |-> exists.violations,
          hash |-> OrElse(exists.hash, Null) ], exists),
      batch |-> [ id |-> exists.batchId, status_phase |-> "CREATED" ] ]

\* const exists = await CollectionEvent.findOne({ clientEventId }).lean()
CollectionIdempotency(r) ==
    /\ req[r].pc = "idempotency"
    /\ LET i == EventIndexByClientEventId(req[r].body.clientEventId) IN
       IF i # 0
       THEN Respond(r, "collection", req[r].body, ReplayResponse(events[i]))
       ELSE /\ req' = [req EXCEPT ![r].pc = "speciesCode"]
            /\ res' = NoResponse
    /\ UNCHANGED <<species, batches, events, steps, labTests, proc>>

\* const code = await speciesCodeFor(scientificName); batchId, dateUtc and
\* qrCodeUrl follow without an await
CollectionSpeciesCode(r) ==
    /\ req[r].pc = "speciesCode"
    /\ LET b == req[r].body
           code == speciesCodeFor(b.scientificName)
       IN req' = [req EXCEPT ![r] =
                    [ kind |-> "collection", pc |-> "ensureBatch", body |-> b,
                      batchId |-> makeBatchId(code, b.timestamp, b.collectorId),
                      dateUtc |-> IsoDate(b.timestamp) ]]
    /\ res' = NoResponse
    /\ UNCHANGED <<species, batches, events, steps, labTests, proc>>

\* await Batch.updateOne({ id: batchId }, { $setOnInsert: ... }, { upsert: true })
CollectionEnsureBatch(r) ==
    /\ req[r].pc = "ensureBatch"
    /\ batches' = UpsertSetOnInsert(batches, req[r].batchId,
                     NewBatchDoc(req[r].batchId, req[r].body.scientificName,
                                 req[r].body.collectorId, req[r].dateUtc))
    /\ req' = [req EXCEPT ![r].pc = "findBatch"]
    /\ res' = NoResponse
    /\ UNCHANGED <<species, events, steps, labTests, proc>>

\* const batchDoc = await Batch.findOne({ id: batchId }).lean();
\* qr_code_url: batchDoc?.qrCodeUrl || null is <<the url>> or <<>>
CollectionFindBatch(r) ==
    /\ req[r].pc = "findBatch"
    /\ LET i == IndexById(batches, req[r].batchId) IN
       req' = [req EXCEPT ![r] =
                 [ kind |-> "collection", pc |-> "create", body |-> req[r].body,
                   batchId |-> req[r].batchId,
                   qr_code_url |-> IF i # 0 THEN <<batches[i].qrCodeUrl>> ELSE <<>> ]]
    /\ res' = NoResponse
    /\ UNCHANGED <<species, batches, events, steps, labTests, proc>>

\* "CE-" + crypto.randomBytes(4).toString("hex"): a value no stored event has
NewEventId == <<"C","E","-">> \o NumStr(Len(events) + 1)

\* the document CollectionEvent.create is given
NewEventDoc(ceid, body, batchId) ==
    WithGeo([ id |-> ceid,
              clientEventId |-> OrElse(body.clientEventId, Null),
              scientificName |-> body.scientificName,
              collectorId |-> body.collectorId,
              timestampUtc |-> body.timestamp,
              ai |-> AiOf(body),
              status |-> "ACCEPTED",
              violations |-> <<>>,
              batchId |-> batchId,
              hash |-> Null ], body)

\* res.status(201).json of a creating request
CreatedResponse(ceid, body, batchId, qr_code_url) ==
    [ status |-> 201,
      collectionEvent |-> WithGeo(
        [ id |-> ceid,
          scientificName |-> body.scientificName,
          collectorId |-> body.collectorId,
          timestamp |-> body.timestamp,
          ai |-> NullAi,
          status |-> "ACCEPTED",
          violations |-> <<>>,
          hash |-> Null ], body),
      batch |-> [ id |-> batchId, status_phase |-> "CREATED",
                  qr_code_url |-> qr_code_url ] ]

\* catch (e): res.status(500).json({ error: "SERVER_ERROR" })
ServerError == [ status |-> 500, error |-> "SERVER_ERROR" ]

\* await CollectionEvent.create({...}); the response follows, or the catch
CollectionCreate(r) ==
    /\ req[r].pc = "create"
    /\ LET doc == NewEventDoc(NewEventId, req[r].body, req[r].batchId) IN
       IF EventDuplicateKey(doc)
       THEN /\ events' = events
            /\ Respond(r, "collection", req[r].body, ServerError)
       ELSE /\ events' = Append(events, doc)
            /\ Respond(r, "collection", req[r].body,
                       CreatedResponse(doc.id, req[r].body, req[r].batchId,
                                       req[r].qr_code_url))
    /\ UNCHANGED <<species, batches, steps, labTests, proc>>

----------------------------------------------------------------------------
\* POST /processing

\* const phaseMap = { RECEIPT: ..., DRYING: ..., GRINDING: ... }
phaseMap == [ RECEIPT |-> "RECEIPT_DONE", DRYING |-> "DRYING_DONE",
              GRINDING |-> "GRINDING_DONE" ]

\* what a String path stores for Object.prototype.constructor
\* (Mongoose casts a function with its toString)
FunctionObjectString == "function Object() { [native code] }"

\* phaseMap[p.step_type]: an own key, else a member phaseMap inherits from
\* Object.prototype, else undefined
nextPhase(step_type) ==
    IF step_type \in DOMAIN phaseMap THEN phaseMap[step_type]
    ELSE IF step_type = "constructor" THEN FunctionObjectString
    ELSE Undefined

NewStepId == <<"P","S","-">> \o NumStr(Len(steps) + 1)

\* validation, then await ProcessingStep.create({...})
ProcessingCreate(r, p) ==
    /\ FirstFree(r)
    /\ IF p.batch_id = <<>> \/ ~Truthy(p.step_type)
       THEN /\ steps' = steps
            /\ Respond(r, "processing", p,
                       [ status |-> 400, error |-> "batch_id and step_type required" ])
       ELSE /\ steps' = Append(steps,
                           [ id |-> NewStepId,
                             batchId |-> p.batch_id,
                             stepType |-> p.step_type,
                             status |-> "COMPLETED",
                             hash |-> sha256Hex(NewStepId \o <<":">> \o p.batch_id) ])
            /\ req' = [req EXCEPT ![r] =
                         [ kind |-> "processing", pc |-> "bumpPhase", body |-> p,
                           id |-> NewStepId ]]
            /\ res' = NoResponse
    /\ UNCHANGED <<species, batches, events, labTests, proc>>

\* if (nextPhase) await Batch.updateOne({ id }, { $set: { statusPhase: nextPhase } });
\* then res.status(201)
ProcessingBump(r) ==
    /\ req[r].pc = "bumpPhase"
    /\ LET p == req[r].body IN
       /\ batches' = IF Truthy(nextPhase(p.step_type))
                     THEN BatchSet(batches, p.batch_id, "statusPhase",
                                   nextPhase(p.step_type))
                     ELSE batches
       /\ Respond(r, "processing", p,
                  [ status |-> 201,
                    processing_step |-> [ id |-> req[r].id, step_type |-> p.step_type ],
                    batch |-> [ id |-> p.batch_id,
                                status_phase |-> nextPhase(p.step_type) ] ])
    /\ UNCHANGED <<species, events, steps, labTests, proc>>

----------------------------------------------------------------------------
\* POST /labtest

\* the threshold when process.env.MOISTURE_THRESHOLD_PCT is not set
MOISTURE_THRESHOLD_PCT == 12

\* a JavaScript number: an integer value, or NaN
Num(v) == [nan |-> FALSE, v |-> v]

NaN == [nan |-> TRUE, v |-> 0]

\* a <= b of two numbers: false as soon as one of them is NaN
LessEq(a, b) == ~a.nan /\ ~b.nan /\ a.v <= b.v

IsDigit(c) == \E k \in 1..Len(DigitChars) : DigitChars[k] = c

DigitValue(c) == (CHOOSE k \in 1..Len(DigitChars) : DigitChars[k] = c) - 1

RECURSIVE DigitsValue(_)
DigitsValue(s) ==
    IF s = <<>> THEN 0
    ELSE DigitsValue(SubSeq(s, 1, Len(s) - 1)) * 10 + DigitValue(s[Len(s)])

\* Number(s) of a string of decimal digits or of letters: the value of the
\* digits, 0 for the empty string, NaN for anything else
Number(s) ==
    IF \A i \in 1..Len(s) : IsDigit(s[i]) THEN Num(DigitsValue(s)) ELSE NaN

\* Number(process.env.MOISTURE_THRESHOLD_PCT || 12); env is <<>> when the
\* variable is not set and <<its string>> when it is
ThresholdFromEnv(env) ==
    IF env = <<>> \/ env[1] = <<>> THEN Num(MOISTURE_THRESHOLD_PCT)
    ELSE Number(env[1])

\* a gate that compares with < instead of <=
GateForStrict(moisture_pct, pesticide_pass, threshold) ==
    IF LessEq(moisture_pct, threshold) /\ moisture_pct.v # threshold.v /\ pesticide_pass
    THEN "PASS" ELSE "FAIL"

\* (p.moisture_pct <= MOISTURE_THRESHOLD_PCT && p.pesticide_pass) ? "PASS" : "FAIL"
GateFor(moisture_pct, pesticide_pass, threshold) ==
    IF LessEq(moisture_pct, threshold) /\ pesticide_pass THEN "PASS" ELSE "FAIL"

\* the gate of the handler under the default threshold
Gate(moisture_pct, pesticide_pass) ==
    GateFor(Num(moisture_pct), pesticide_pass, Num(MOISTURE_THRESHOLD_PCT))

\* the gate expression of POST /labtest evaluated for one configuration and
\* one pair of inputs that passed the typeof checks
GateEvaluated(env, moisture_pct, pesticide_pass) ==
    /\ res' = [ kind |-> "gate",
                body |-> [ env |-> env, moisture_pct |-> moisture_pct,
                           pesticide_pass |-> pesticide_pass ],
                resp |-> [ gate |-> GateFor(moisture_pct, pesticide_pass,
                                            ThresholdFromEnv(env)) ] ]
    /\ UNCHANGED <<species, batches, events, steps, labTests, req, proc>>

NewLabTestId == <<"L","T","-">> \o NumStr(Len(labTests) + 1)

\* validation, then await LabTest.create({...})
LabTestCreate(r, p) ==
    /\ FirstFree(r)
    /\ IF p.batch_id = <<>>
       THEN /\ labTests' = labTests
            /\ Respond(r, "labtest", p,
                       [ status |-> 400,
                         error |-> "batch_id, moisture_pct(number), pesticide_pass(boolean) required" ])
       ELSE /\ labTests' = Append(labTests,
                              [ id |-> NewLabTestId,
                                batchId |-> p.batch_id,
                                moisturePct |-> p.moisture_pct,
                                pesticidePass |-> p.pesticide_pass,
                                gate |-> Gate(p.moisture_pct, p.pesticide_pass),
                                status |-> "READY",
                                hash |-> sha256Hex(NewLabTestId \o <<":">> \o p.batch_id) ])
            /\ req' = [req EXCEPT ![r] =
                         [ kind |-> "labtest", pc |-> "updateGate", body |-> p,
                           id |-> NewLabTestId,
                           gate |-> Gate(p.moisture_pct, p.pesticide_pass) ]]
            /\ res' = NoResponse
    /\ UNCHANGED <<species, batches, events, steps, proc>>

\* await Batch.updateOne({ id: p.batch_id }, { $set: { qualityGate: gate } }); res.status(201)
LabTestUpdateGate(r) ==
    /\ req[r].pc = "updateGate"
    /\ LET p == req[r].body IN
       /\ batches' = BatchSet(batches, p.batch_id, "qualityGate", req[r].gate)
       /\ Respond(r, "labtest", p,
                  [ status |-> 201,
                    lab_test |-> [ id |-> req[r].id,
                                   batch_id |-> p.batch_id,
                                   moisture_pct |-> p.moisture_pct,
                                   pesticide_pass |-> p.pesticide_pass,
                                   gate |-> req[r].gate,
                                   threshold_pct |-> MOISTURE_THRESHOLD_PCT ],
                    batch |-> [ id |-> p.batch_id, quality_gate |-> req[r].gate ] ])
    /\ UNCHANGED <<species, events, steps, labTests, proc>>

----------------------------------------------------------------------------
\* PATCH /batches/:id/chain-status and PATCH /<entity>/:id/blockchain
\*
\* A status of a request body is a sequence of characters, <<>> when the
\* body has none (or an empty one: both are falsy); a hash is <<>> when the
\* body has none and <<h>> when it has the hash h.

\* const allowed = new Set(["READY", "IN_PROGRESS", "COMPLETE"])
allowed ==
    [ READY |-> <<"R","E","A","D","Y">>,
      IN_PROGRESS |-> <<"I","N","_","P","R","O","G","R","E","S","S">>,
      COMPLETE |-> <<"C","O","M","P","L","E","T","E">> ]

\* allowed.has(String(status).toUpperCase())
allowedHas(status) == \E n \in DOMAIN allowed : allowed[n] = toUpperCase(status)

\* String(status).toUpperCase() of an allowed status, as the stored value
StatusUpper(status) == CHOOSE n \in DOMAIN allowed : allowed[n] = toUpperCase(status)

\* the paths of the Batch schema
BatchPaths ==
    { "id", "scientificName", "collectorId", "dateUtc", "statusPhase",
      "qualityGate", "qrCodeUrl" }

\* Batch.updateOne({ id }, { $set: { [field]: value } }): the schema is
\* strict, so a field that is no path of it is dropped from the update
BatchStrictSet(coll, id, field, value) ==
    IF field \in BatchPaths
    THEN [ i \in 1..Len(coll) |->
             IF i = IndexById(coll, id) THEN [coll[i] EXCEPT ![field] = value]
             ELSE coll[i] ]
    ELSE coll

\* const update = {}; if (status) update.status = ...; if (hash) update.hash = hash
UpdateOf(body) ==
    [ f \in { g \in {"status", "hash"} : body[g] # <<>> } |->
        IF f = "status" THEN StatusUpper(body.status) ELSE body.hash[1] ]

\* an update that also clears the batch id of the document
ApplySetClearBatch(doc, update) ==
    [ f \in DOMAIN doc \cup DOMAIN update |->
        IF f \in DOMAIN update THEN update[f]
        ELSE IF f = "batchId" THEN <<>> ELSE doc[f] ]

\* { $set: update } applied to one document
ApplySet(doc, update) ==
    [ f \in DOMAIN doc \cup DOMAIN update |->
        IF f \in DOMAIN update THEN update[f] ELSE doc[f] ]

\* an updateOne that inserts the update when no document matches
SetByIdUpsert(coll, id, update) ==
    IF IndexById(coll, id) # 0
    THEN [ i \in 1..Len(coll) |->
             IF i = IndexById(coll, id) THEN ApplySet(coll[i], update) ELSE coll[i] ]
    ELSE Append(coll, ApplySet([id |-> id], update))

\* Model.updateOne({ id }, { $set: update }): no upsert
SetById(coll, id, update) ==
    [ i \in 1..Len(coll) |->
        IF i = IndexById(coll, id) THEN ApplySet(coll[i], update) ELSE coll[i] ]

\* r.matchedCount
matchedCount(coll, id) == IF IndexById(coll, id) # 0 THEN 1 ELSE 0

InvalidStatus == [ status |-> 400,
                   error |-> "Invalid status. Use READY | IN_PROGRESS | COMPLETE" ]

NotFound == [ status |-> 404, error |-> "NOT_FOUND" ]

\* res.json({ id, ...update })
BlockchainResponse(id, update) == [ status |-> 200, id |-> id, update |-> update ]

\* the answer of a PATCH request that holds no slot between its steps
Answer(kind, id, body, resp) ==
    res' = [ kind |-> kind, id |-> id, body |-> body, resp |-> resp ]

\* PATCH /batches/:id/chain-status (the first of the two registrations
\* answers every request): validation, then await Batch.updateOne
ChainStatusUpdate(r, id, body) ==
    /\ FirstFree(r)
    /\ IF body.status = <<>> \/ ~allowedHas(body.status)
       THEN /\ Answer("chainStatus", id, body, InvalidStatus)
            /\ UNCHANGED <<batches, req>>
       ELSE /\ batches' = BatchStrictSet(batches, id, "chainStatus",
                                         StatusUpper(body.status))
            /\ IF matchedCount(batches, id) = 0
               THEN /\ Answer("chainStatus", id, body, NotFound)
                    /\ req' = req
               ELSE IF body.hash # <<>>
               THEN /\ req' = [req EXCEPT ![r] =
                                 [ kind |-> "chainStatus", pc |-> "updateMany",
                                   id |-> id, body |-> body ]]
                    /\ res' = NoResponse
               ELSE /\ Answer("chainStatus", id, body,
                              [ status |-> 200, id |-> id,
                                chain_status |-> StatusUpper(body.status),
                                hash |-> Null ])
                    /\ req' = req
    /\ UNCHANGED <<species, events, steps, labTests, proc>>

\* await CollectionEvent.updateMany({ batchId: id }, { $set: { hash } }); res.json
ChainStatusUpdateMany(r) ==
    /\ req[r].pc = "updateMany"
    /\ events' = [ i \in 1..Len(events) |->
                     IF events[i].batchId = req[r].id
                     THEN ApplySet(events[i], [hash |-> req[r].body.hash[1]])
                     ELSE events[i] ]
    /\ req' = [req EXCEPT ![r] = IdleReq]
    /\ Answer("chainStatus", req[r].id, req[r].body,
              [ status |-> 200, id |-> req[r].id,
                chain_status |-> StatusUpper(req[r].body.status),
                hash |-> req[r].body.hash[1] ])
    /\ UNCHANGED <<species, batches, steps, labTests, proc>>

\* PATCH /processing/:id/blockchain
ProcessingBlockchain(id, body) ==
    /\ IF body.status # <<>> /\ ~allowedHas(body.status)
       THEN /\ Answer("processingBlockchain", id, body, InvalidStatus)
            /\ steps' = steps
       ELSE /\ steps' = SetById(steps, id, UpdateOf(body))
            /\ Answer("processingBlockchain", id, body,
                      IF matchedCount(steps, id) = 0 THEN NotFound
                      ELSE BlockchainResponse(id, UpdateOf(body)))
    /\ UNCHANGED <<species, batches, events, labTests, req, proc>>

\* PATCH /labtest/:id/blockchain
LabTestBlockchain(id, body) ==
    /\ IF body.status # <<>> /\ ~allowedHas(body.status)
       THEN /\ Answer("labtestBlockchain", id, body, InvalidStatus)
            /\ labTests' = labTests
       ELSE /\ labTests' = SetById(labTests, id, UpdateOf(body))
            /\ Answer("labtestBlockchain", id, body,
                      IF matchedCount(labTests, id) = 0 THEN NotFound
                      ELSE BlockchainResponse(id, UpdateOf(body)))
    /\ UNCHANGED <<species, batches, events, steps, req, proc>>

\* PATCH /collection/:id/blockchain
CollectionBlockchain(id, body) ==
    /\ IF body.status # <<>> /\ ~allowedHas(body.status)
       THEN /\ Answer("collectionBlockchain", id, body, InvalidStatus)
            /\ events' = events
       ELSE /\ events' = SetById(events, id, UpdateOf(body))
            /\ Answer("collectionBlockchain", id, body,
                      IF matchedCount(events, id) = 0 THEN NotFound
                      ELSE BlockchainResponse(id, UpdateOf(body)))
    /\ UNCHANGED <<species, batches, steps, labTests, req, proc>>

----------------------------------------------------------------------------
\* GET /provenance/:batchId

\* isoZ(d): YYYY-MM-DDTHH:00:00Z of an instant on the hour
isoZ(ts) ==
    IsoDate(ts) \o <<"T">> \o PadStart2(ts % 24) \o <<":","0","0",":","0","0","Z">>

\* s.slice(-1)
SliceLast(s) == IF s = <<>> THEN <<>> ELSE <<s[Len(s)]>>

\* const mask = (s) => (typeof s === 'string' && s.length > 4)
\*                       ? s.slice(0,2) + "***" + s.slice(-1) : s
mask(s) == IF Len(s) > 4 THEN SliceTo(s, 2) \o <<"*","*","*">> \o SliceLast(s) ELSE s

\* the documents of a collection that reference the batch, in stored order
FindByBatch(coll, batchId) ==
    SelectSeq(coll, LAMBDA d : d.batchId = batchId)

\* .sort({ timestampUtc: 1 }): ascending, documents of one instant in stored order
RECURSIVE SortByTimestamp(_)
SortByTimestamp(docs) ==
    IF Len(docs) <= 1 THEN docs
    ELSE LET m == CHOOSE i \in 1..Len(docs) :
                    /\ \A j \in 1..Len(docs) : docs[i].timestampUtc <= docs[j].timestampUtc
                    /\ \A j \in 1..(i - 1) : docs[j].timestampUtc # docs[i].timestampUtc
         IN <<docs[m]>> \o SortByTimestamp(SubSeq(docs, 1, m - 1)
                                              \o SubSeq(docs, m + 1, Len(docs)))

\* .sort({ createdAt: -1 }): the documents in the reverse of the stored order
Reverse(docs) == [ i \in 1..Len(docs) |-> docs[Len(docs) + 1 - i] ]

\* the four queries of the Promise.all
ProvenanceQueries == { "batch", "collEvents", "steps", "labTests" }

\* the result of one query: the batch as <<doc>> or <<>>, the others as lists
QueryResult(query, batchId) ==
    CASE query = "batch" ->
           IF IndexById(batches, batchId) # 0
           THEN <<batches[IndexById(batches, batchId)]>> ELSE <<>>
      [] query = "collEvents" -> SortByTimestamp(FindByBatch(events, batchId))
      [] query = "steps" -> FindByBatch(steps, batchId)
      [] query = "labTests" -> Reverse(FindByBatch(labTests, batchId))

\* the bundle built from the results of the four queries
Bundle(found) ==
    LET batch == found.batch[1]
        firstCE == found.collEvents
    IN [ status |-> 200,
         batch |-> [ species_scientific |-> batch.scientificName,
                     collector_id_masked |-> mask(batch.collectorId),
                     date_utc |-> batch.dateUtc,
                     status_phase |-> batch.statusPhase,
                     quality_gate |-> OrElse(batch.qualityGate, "PENDING") ],
         collection |->
           [ i \in 1..Len(found.collEvents) |->
               LET e == found.collEvents[i] IN
               [ scientific_name |-> e.scientificName,
                 collector_id_masked |-> mask(e.collectorId),
                 geo |-> IF HasGeo(e) THEN <<e.geo>> ELSE <<>>,
                 timestamp |-> isoZ(e.timestampUtc),
                 ai |-> AiOrEmpty(e.ai),
                 status |-> e.status,
                 violations |-> e.violations ] ],
         processing_steps |->
           [ i \in 1..Len(found.steps) |->
               [ step_type |-> found.steps[i].stepType,
                 status |-> found.steps[i].status ] ],
         lab_results |->
           [ i \in 1..Len(found.labTests) |->
               [ moisture_pct |-> found.labTests[i].moisturePct,
                 pesticide_pass |-> found.labTests[i].pesticidePass,
                 gate |-> found.labTests[i].gate ] ],
         ui |-> [ map |-> IF firstCE # <<>> /\ HasGeo(firstCE[1])
                          THEN <<firstCE[1].geo>> ELSE <<>>,
                  herb_names |-> [ scientific |-> batch.scientificName,
                                   ai_verified_confidence |->
                                     IF firstCE # <<>>
                                        /\ "confidence" \in DOMAIN firstCE[1].ai
                                     THEN <<firstCE[1].ai.confidence>> ELSE <<>> ],
                  processing_summary |->
                    [ i \in 1..Len(found.steps) |-> found.steps[i].stepType ],
                  recall_banner |-> FALSE ] ]

\* the request arrives and issues its four queries
ProvenanceReceive(r, batchId) ==
    /\ FirstFree(r)
    /\ req' = [req EXCEPT ![r] =
                 [ kind |-> "provenance", pc |-> "queries", batchId |-> batchId,
                   pending |-> ProvenanceQueries,
                   found |-> [ q \in ProvenanceQueries |-> <<>> ] ]]
    /\ res' = NoResponse
    /\ UNCHANGED <<species, batches, events, steps, labTests, proc>>

\* one of the queries is served; with the last one the Promise.all resolves
\* and the handler answers
ProvenanceQuery(r, query) ==
    /\ req[r].pc = "queries"
    /\ query \in req[r].pending
    /\ LET found == [req[r].found EXCEPT ![query] = QueryResult(query, req[r].batchId)]
       IN IF req[r].pending = {query}
          THEN /\ req' = [req EXCEPT ![r] = IdleReq]
               /\ res' = [ kind |-> "provenance", id |-> req[r].batchId,
                           resp |-> IF found.batch = <<>>
                                    THEN [ status |-> 404, error |-> "BATCH_NOT_FOUND" ]
                                    ELSE Bundle(found) ]
          ELSE /\ req' = [req EXCEPT ![r].pending = @ \ {query},
                                     ![r].found = found]
               /\ res' = NoResponse
    /\ UNCHANGED <<species, batches, events, steps, labTests, proc>>

----------------------------------------------------------------------------
\* stableStringify
\*
\* A JSON value is a string, a number, null, an array of values, or an
\* object: the sequence of its key/value entries in insertion order.

Str(chars) == [ t |-> "str", v |-> chars ]

NumV(n) == [ t |-> "num", n |-> n ]

NullV == [ t |-> "null" ]

Arr(items) == [ t |-> "arr", items |-> items ]

Obj(entries) == [ t |-> "obj", entries |-> entries ]

Entry(key, value) == [ k |-> key, v |-> value ]

\* the characters of the model in the order of their UTF-16 code units
CodeUnits == DigitChars \o Upper \o Lower

CodeUnit(c) == CHOOSE i \in 1..Len(CodeUnits) : CodeUnits[i] = c

\* a < b in the default order of Array.prototype.sort: by code units
RECURSIVE StringLess(_, _)
StringLess(a, b) ==
    IF b = <<>> THEN FALSE
    ELSE IF a = <<>> THEN TRUE
    ELSE IF a[1] # b[1] THEN CodeUnit(a[1]) < CodeUnit(b[1])
    ELSE StringLess(Tail(a), Tail(b))

\* Object.keys(obj): the keys in insertion order
ObjectKeys(entries) == [ i \in 1..Len(entries) |-> entries[i].k ]

\* the keys left as Object.keys gives them
KeysUnsorted(keys) == keys

\* keys.sort()
RECURSIVE SortKeys(_)
SortKeys(keys) ==
    IF Len(keys) <= 1 THEN keys
    ELSE LET m == CHOOSE i \in 1..Len(keys) :
                    \A j \in 1..Len(keys) : ~StringLess(keys[j], keys[i])
         IN <<keys[m]>> \o SortKeys(SubSeq(keys, 1, m - 1)
                                      \o SubSeq(keys, m + 1, Len(keys)))

\* obj[k]
ValueAt(entries, key) ==
    entries[CHOOSE i \in 1..Len(entries) : entries[i].k = key].v

\* parts.join(",")
RECURSIVE Join(_)
Join(parts) ==
    IF parts = <<>> THEN <<>>
    ELSE IF Len(parts) = 1 THEN parts[1]
    ELSE parts[1] \o <<",">> \o Join(Tail(parts))

\* JSON.stringify of a string without characters to escape
Quoted(chars) == <<"\"">> \o chars \o <<"\"">>

RECURSIVE stableStringify(_)
stableStringify(obj) ==
    CASE obj.t = "null" -> <<"n","u","l","l">>
      [] obj.t = "str" -> Quoted(obj.v)
      [] obj.t = "num" -> NumStr(obj.n)
      [] obj.t = "arr" ->
           <<"[">> \o Join([ i \in 1..Len(obj.items) |-> stableStringify(obj.items[i]) ])
                  \o <<"]">>
      [] obj.t = "obj" ->
           LET keys == SortKeys(ObjectKeys(obj.entries)) IN
           <<"{">> \o Join([ i \in 1..Len(keys) |->
                               Quoted(keys[i]) \o <<":">>
                                 \o stableStringify(ValueAt(obj.entries, keys[i])) ])
                  \o <<"}">>

\* stableStringify applied to a value
Canonicalized(obj) ==
    /\ res' = [ kind |-> "canon", body |-> obj, resp |-> stableStringify(obj) ]
    /\ UNCHANGED <<species, batches, events, steps, labTests, req, proc>>

----------------------------------------------------------------------------------------------------------------------------------------
\* Inputs of the requests

AllCollectionBodies ==
    [ scientificName : ScientificNames, collectorId : CollectorIds,
      geo : {GeoSent}, timestamp : Timestamps, clientEventId : ClientEventIds ]

\* two instants of one day without a token and with one, and the next day
\* with the other token
CollectionBodies ==
    { b \in AllCollectionBodies :
        \/ b.timestamp \in {6201, 6215} /\ b.clientEventId \in {Undefined, "event-001"}
        \/ b.timestamp = 6216 /\ b.clientEventId = "event-002" }

\* one day's bodies, without a token and with one
DayCollectionBodies ==
    { b \in AllCollectionBodies :
        \/ b.timestamp = 6201 /\ b.clientEventId = Undefined
        \/ b.timestamp = 6215 /\ b.clientEventId = "event-001" }

\* a request that carries no geo
IncompleteCollectionBodies ==
    { [ scientificName |-> n, collectorId |-> c, timestamp |-> 6201,
        clientEventId |-> "event-003" ] : n \in ScientificNames, c \in CollectorIds }

\* collector ids of six and of four characters
ProvenanceCollectorIds == { <<"f","a","r","m","-","1">>, <<"f","-","1","2">> }

\* one request of each collector, each with its own token
ProvenanceCollectionBodies ==
    { [ scientificName |-> n, collectorId |-> <<"f","a","r","m","-","1">>,
        geo |-> GeoSent, timestamp |-> 6215, clientEventId |-> "event-001" ]
        : n \in ScientificNames }
    \cup
    { [ scientificName |-> n, collectorId |-> <<"f","-","1","2">>,
        geo |-> GeoSent, timestamp |-> 6201, clientEventId |-> "event-002" ]
        : n \in ScientificNames }

\* a request that carries ai_verified_confidence (0.92, in hundredths)
ConfidenceCollectionBodies ==
    { [ scientificName |-> n, collectorId |-> c, geo |-> GeoSent,
        timestamp |-> 6201, clientEventId |-> "event-004",
        ai_verified_confidence |-> 92 ] : n \in ScientificNames, c \in CollectorIds }

\* "withania s" and "withania c": two species of one genus
SameGenusNames ==
    ScientificNames \cup { <<"w","i","t","h","a","n","i","a"," ","c">> }

\* one collector's requests of one day for the two species
SameGenusCollectionBodies ==
    [ scientificName : SameGenusNames, collectorId : CollectorIds,
      geo : {GeoSent}, timestamp : {6201},
      clientEventId : {"event-001", "event-002"} ]

\* a batch id no collection request of the model derives
UnknownBatchId == <<"B","-","X">>

StoredBatchIds == { batches[i].id : i \in 1..Len(batches) }

\* the batch id a client computes for a collection it is about to record
AnnouncedBatchIds ==
    { makeBatchId(FallbackCode(n), ts, c) :
        n \in ScientificNames, ts \in {6215}, c \in CollectorIds }

StepTypes == { "RECEIPT", "DRYING", "GRINDING", "PACKAGING", "constructor" }

ProcessingBodies(batchIds, stepTypes) == [ batch_id : batchIds, step_type : stepTypes ]

\* moisture at and above the threshold
MoisturePcts == { 12, 13 }

LabTestBodies(batchIds) ==
    [ batch_id : batchIds, moisture_pct : MoisturePcts, pesticide_pass : BOOLEAN ]

\* statuses a PATCH body carries: none, an allowed one in lower case, one
\* that is not allowed
StatusesSent == { <<>>, <<"r","e","a","d","y">>, <<"D","O","N","E">> }

\* hashes a PATCH body carries for a batch or a collection event
EventHashesSent == { <<>>, <<"0xabc">> }

\* hashes a PATCH body carries for a processing step or a lab test: a digest
\* the anchoring side computed
DigestHashesSent == { <<>>, <<sha256Hex(<<"t","x">>)>> }

\* bodies with a hash and any status, and the body with a status only
EventPatchBodies ==
    { b \in [ status : StatusesSent, hash : EventHashesSent ] :
        b.hash # <<>> \/ b.status = <<"r","e","a","d","y">> }

\* bodies with a hash and no status or one that is not allowed
DigestPatchBodies ==
    { b \in [ status : StatusesSent, hash : DigestHashesSent ] :
        b.hash # <<>> /\ b.status # <<"r","e","a","d","y">> }

\* ids that no collection event, processing step or lab test has
UnknownEventId == <<"C","E","-","X">>

UnknownStepId == <<"P","S","-","X">>

UnknownLabTestId == <<"L","T","-","X">>

StoredIds(coll) == { coll[i].id : i \in 1..Len(coll) }

\* values without keys
Leaves == { Str(<<"x">>), NumV(1) }

\* objects of two keys, in both insertion orders
TwoKeyObjects(keyA, keyB, values) ==
    { Obj(<<Entry(k1, v1), Entry(k2, v2)>>) :
        k1 \in {keyA, keyB}, k2 \in {keyA, keyB}, v1 \in values, v2 \in values }
    \ { Obj(<<Entry(k, v1), Entry(k, v2)>>) :
          k \in {keyA, keyB}, v1 \in values, v2 \in values }

InnerObjects == TwoKeyObjects(<<"a">>, <<"a","b">>, Leaves)

\* arrays that hold an object
InnerArrays ==
    { Arr(<<o, NullV>>) : o \in { x \in InnerObjects : x.entries[1].v # x.entries[2].v } }

\* the values stableStringify is applied to: objects of the keys "b" and
\* "B" whose values are leaves, objects or arrays of objects
CanonInputs == TwoKeyObjects(<<"b">>, <<"B">>, Leaves \cup InnerObjects \cup InnerArrays)

\* values of process.env.MOISTURE_THRESHOLD_PCT: not set, empty, "0", "10",
\* "12", "abc"
EnvValues ==
    { <<>>, << <<>> >>, << <<"0">> >>, << <<"1","0">> >>, << <<"1","2">> >>,
      << <<"a","b","c">> >> }

\* scientific names speciesCodeFor is evaluated on: "withania s", the same
\* after a leading space, and "aloe<TAB>v"
HelperNames ==
    ScientificNames
      \cup { <<" ","w","i","t","h","a","n","i","a"," ","s">>,
             <<"a","l","o","e","\t","v">> }

\* moisture values around the thresholds, and NaN (typeof NaN is "number")
MoistureValues == { Num(v) : v \in {-1, 0, 1, 9, 10, 11, 12, 13} } \cup { NaN }

----------------------------------------------------------------------------
\* The system

\* the bound on the events: a request that finds its clientEventId stored
\* creates nothing; any other is received while fewer than MaxEvents events
\* are stored or being created
WithinMaxEvents(body) ==
    \/ /\ Truthy(body.clientEventId)
       /\ \E i \in 1..Len(events) : events[i].clientEventId = body.clientEventId
    \/ Len(events) + InFlight("collection") < MaxEvents

\* /collection, /processing and /labtest served, for one day's collection
\* and the batches that exist
Next ==
    \/ \E r \in Slots, body \in DayCollectionBodies :
          /\ WithinMaxEvents(body)
          /\ CollectionReceive(r, body)
    \/ \E r \in Slots : CollectionIdempotency(r)
    \/ \E r \in Slots : CollectionSpeciesCode(r)
    \/ \E r \in Slots : CollectionEnsureBatch(r)
    \/ \E r \in Slots : CollectionFindBatch(r)
    \/ \E r \in Slots : CollectionCreate(r)
    \/ \E r \in Slots, p \in ProcessingBodies(StoredBatchIds, {"DRYING", "PACKAGING"}) :
          /\ Len(steps) < MaxBatchSteps
          /\ ProcessingCreate(r, p)
    \/ \E r \in Slots : ProcessingBump(r)
    \/ \E r \in Slots, p \in LabTestBodies(StoredBatchIds) :
          /\ Len(labTests) < MaxLabTests
          /\ LabTestCreate(r, p)
    \/ \E r \in Slots : LabTestUpdateGate(r)

Spec == Init /\ [][Next]_vars

\* /dev/seed-species and /collection served
NextCollection ==
    \/ \E n \in ScientificNames, c \in SeedCodes : SeedSpecies(n, c)
    \/ \E r \in Slots, body \in CollectionBodies :
          /\ WithinMaxEvents(body)
          /\ CollectionReceive(r, body)
    \/ \E r \in Slots : CollectionIdempotency(r)
    \/ \E r \in Slots : CollectionSpeciesCode(r)
    \/ \E r \in Slots : CollectionEnsureBatch(r)
    \/ \E r \in Slots : CollectionFindBatch(r)
    \/ \E r \in Slots : CollectionCreate(r)

SpecCollection == Init /\ [][NextCollection]_vars

\* /collection and /processing served, for the batches that exist
NextProcessing ==
    \/ \E r \in Slots, body \in DayCollectionBodies :
          /\ WithinMaxEvents(body)
          /\ CollectionReceive(r, body)
    \/ \E r \in Slots : CollectionIdempotency(r)
    \/ \E r \in Slots : CollectionSpeciesCode(r)
    \/ \E r \in Slots : CollectionEnsureBatch(r)
    \/ \E r \in Slots : CollectionFindBatch(r)
    \/ \E r \in Slots : CollectionCreate(r)
    \/ \E r \in Slots, p \in ProcessingBodies(StoredBatchIds, StepTypes) :
          /\ Len(steps) < MaxSteps
          /\ ProcessingCreate(r, p)
    \/ \E r \in Slots : ProcessingBump(r)

SpecProcessing == Init /\ [][NextProcessing]_vars

\* the collection request that brings the batch of the lab tests
LabCollectionBodies ==
    { b \in AllCollectionBodies : b.timestamp = 6215 /\ b.clientEventId = "event-001" }

\* lab tests that pass the pesticide screen, at and above the threshold
PassingLabTestBodies(batchIds) ==
    { p \in LabTestBodies(batchIds) : p.pesticide_pass }

\* /collection and /labtest served for the batches that exist, /labtest and
\* /processing for a batch id that no batch has
NextLabTest ==
    \/ \E r \in Slots, body \in LabCollectionBodies :
          /\ WithinMaxEvents(body)
          /\ CollectionReceive(r, body)
    \/ \E r \in Slots : CollectionIdempotency(r)
    \/ \E r \in Slots : CollectionSpeciesCode(r)
    \/ \E r \in Slots : CollectionEnsureBatch(r)
    \/ \E r \in Slots : CollectionFindBatch(r)
    \/ \E r \in Slots : CollectionCreate(r)
    \/ \E r \in Slots,
          p \in PassingLabTestBodies(StoredBatchIds \cup {UnknownBatchId}) :
          /\ Len(labTests) < MaxBatchLabTests
          /\ LabTestCreate(r, p)
    \/ \E r \in Slots : LabTestUpdateGate(r)
    \/ \E r \in Slots, p \in ProcessingBodies({UnknownBatchId}, {"DRYING"}) :
          /\ Len(steps) < MaxBatchSteps
          /\ ProcessingCreate(r, p)
    \/ \E r \in Slots : ProcessingBump(r)

SpecLabTest == Init /\ [][NextLabTest]_vars

\* /dev/seed-species and /collection served, for complete requests and for
\* requests without a geo
NextIncomplete ==
    \/ \E n \in ScientificNames, c \in SeedCodes : SeedSpecies(n, c)
    \/ \E r \in Slots, body \in DayCollectionBodies \cup IncompleteCollectionBodies :
          /\ WithinMaxEvents(body)
          /\ CollectionReceive(r, body)
    \/ \E r \in Slots : CollectionIdempotency(r)
    \/ \E r \in Slots : CollectionSpeciesCode(r)
    \/ \E r \in Slots : CollectionEnsureBatch(r)
    \/ \E r \in Slots : CollectionFindBatch(r)
    \/ \E r \in Slots : CollectionCreate(r)

SpecIncomplete == Init /\ [][NextIncomplete]_vars

\* the four PATCH endpoints of the anchoring side served, over one
\* collection event, its batch, and the processing steps and lab tests
\* that arrive while no other request is in flight
NextAnchoring ==
    \/ \E r \in Slots, body \in LabCollectionBodies :
          /\ WithinMaxEvents(body)
          /\ CollectionReceive(r, body)
    \/ \E r \in Slots : CollectionIdempotency(r)
    \/ \E r \in Slots : CollectionSpeciesCode(r)
    \/ \E r \in Slots : CollectionEnsureBatch(r)
    \/ \E r \in Slots : CollectionFindBatch(r)
    \/ \E r \in Slots : CollectionCreate(r)
    \/ \E r \in Slots, p \in ProcessingBodies(StoredBatchIds, {"DRYING"}) :
          /\ Len(steps) < MaxBatchSteps
          /\ \A q \in Slots : req[q] = IdleReq
          /\ ProcessingCreate(r, p)
    \/ \E r \in Slots : ProcessingBump(r)
    \/ \E r \in Slots, p \in PassingLabTestBodies(StoredBatchIds) :
          /\ Len(labTests) < MaxLabTests
          /\ \A q \in Slots : req[q] = IdleReq
          /\ p.moisture_pct = MOISTURE_THRESHOLD_PCT
          /\ LabTestCreate(r, p)
    \/ \E r \in Slots : LabTestUpdateGate(r)
    \/ \E r \in Slots, id \in StoredBatchIds \cup {UnknownBatchId},
          body \in EventPatchBodies : ChainStatusUpdate(r, id, body)
    \/ \E r \in Slots : ChainStatusUpdateMany(r)
    \/ \E id \in StoredIds(steps) \cup {UnknownStepId}, body \in DigestPatchBodies :
          ProcessingBlockchain(id, body)
    \/ \E id \in StoredIds(labTests) \cup {UnknownLabTestId}, body \in DigestPatchBodies :
          LabTestBlockchain(id, body)
    \/ \E id \in StoredIds(events) \cup {UnknownEventId}, body \in EventPatchBodies :
          CollectionBlockchain(id, body)

SpecAnchoring == Init /\ [][NextAnchoring]_vars

\* /collection served for two collectors, and /provenance for the batches
\* that exist and for a batch id that no batch has
NextProvenance ==
    \/ \E r \in Slots, body \in ProvenanceCollectionBodies :
          /\ WithinMaxEvents(body)
          /\ CollectionReceive(r, body)
    \/ \E r \in Slots : CollectionIdempotency(r)
    \/ \E r \in Slots : CollectionSpeciesCode(r)
    \/ \E r \in Slots : CollectionEnsureBatch(r)
    \/ \E r \in Slots : CollectionFindBatch(r)
    \/ \E r \in Slots : CollectionCreate(r)
    \/ \E r \in Slots, id \in StoredBatchIds \cup {UnknownBatchId} :
          /\ InFlight("provenance") < MaxProvenance
          /\ ProvenanceReceive(r, id)
    \/ \E r \in Slots, q \in ProvenanceQueries : ProvenanceQuery(r, q)

SpecProvenance == Init /\ [][NextProvenance]_vars

\* /collection served for requests with and without ai_verified_confidence
NextConfidence ==
    \/ \E r \in Slots, body \in DayCollectionBodies \cup ConfidenceCollectionBodies :
          /\ WithinMaxEvents(body)
          /\ CollectionReceive(r, body)
    \/ \E r \in Slots : CollectionIdempotency(r)
    \/ \E r \in Slots : CollectionSpeciesCode(r)
    \/ \E r \in Slots : CollectionEnsureBatch(r)
    \/ \E r \in Slots : CollectionFindBatch(r)
    \/ \E r \in Slots : CollectionCreate(r)

SpecConfidence == Init /\ [][NextConfidence]_vars

\* /collection served for two species of one genus
NextSameGenus ==
    \/ \E r \in Slots, body \in SameGenusCollectionBodies :
          /\ WithinMaxEvents(body)
          /\ CollectionReceive(r, body)
    \/ \E r \in Slots : CollectionIdempotency(r)
    \/ \E r \in Slots : CollectionSpeciesCode(r)
    \/ \E r \in Slots : CollectionEnsureBatch(r)
    \/ \E r \in Slots : CollectionFindBatch(r)
    \/ \E r \in Slots : CollectionCreate(r)

SpecSameGenus == Init /\ [][NextSameGenus]_vars

\* /collection and /processing served, the steps naming the batch id of the
\* day's collection whether the batch exists or not
NextEarlyStep ==
    \/ \E r \in Slots, body \in LabCollectionBodies :
          /\ WithinMaxEvents(body)
          /\ CollectionReceive(r, body)
    \/ \E r \in Slots : CollectionIdempotency(r)
    \/ \E r \in Slots : CollectionSpeciesCode(r)
    \/ \E r \in Slots : CollectionEnsureBatch(r)
    \/ \E r \in Slots : CollectionFindBatch(r)
    \/ \E r \in Slots : CollectionCreate(r)
    \/ \E r \in Slots,
          p \in ProcessingBodies(AnnouncedBatchIds, {"RECEIPT", "DRYING", "GRINDING"}) :
          /\ Len(steps) < MaxSteps
          /\ ProcessingCreate(r, p)
    \/ \E r \in Slots : ProcessingBump(r)

SpecEarlyStep == Init /\ [][NextEarlyStep]_vars

\* startup, and /collection served once the server listens
NextStartup ==
    \/ ConnectResolves
    \/ ConnectRejects
    \/ \E r \in Slots, body \in LabCollectionBodies :
          /\ proc.pc = "listening"
          /\ WithinMaxEvents(body)
          /\ CollectionReceive(r, body)
    \/ \E r \in Slots : CollectionIdempotency(r)
    \/ \E r \in Slots : CollectionSpeciesCode(r)
    \/ \E r \in Slots : CollectionEnsureBatch(r)
    \/ \E r \in Slots : CollectionFindBatch(r)
    \/ \E r \in Slots : CollectionCreate(r)

\* mongoose.connect settles: it resolves, or rejects at the latest when
\* serverSelectionTimeoutMS / connectTimeoutMS have passed
SpecStartup ==
    InitStartup /\ [][NextStartup]_vars /\ WF_vars(ConnectResolves \/ ConnectRejects)

\* the helper expressions of the handlers, each evaluated on its inputs
NextHelpers ==
    \/ \E env \in EnvValues, m \in MoistureValues, pp \in BOOLEAN :
          GateEvaluated(env, m, pp)
    \/ \E obj \in CanonInputs : Canonicalized(obj)
    \/ \E name \in HelperNames : SpeciesCodeEvaluated(name)

SpecHelpers == Init /\ [][NextHelpers]_vars

----------------------------------------------------------------------------
\* Properties

\* the stored batches with an id
BatchesWithId(id) == { i \in 1..Len(batches) : batches[i].id = id }

\* the stored events with a clientEventId
EventsWithToken(t) == { i \in 1..Len(events) : events[i].clientEventId = t }

\* the last step answered a collection request
CollectionAnswered == res.kind = "collection"

\* the last step answered a collection request with success
CollectionSucceeded == CollectionAnswered /\ res.resp.status \in {200, 201}

\* C1: two collection events with the same scientific name, the same
\* collector id and timestamps of the same UTC day carry the same batch id,
\* whatever seed-species requests were served in between.
C1_SameDaySameBatchId ==
    \A i, j \in 1..Len(events) :
        ( /\ events[i].scientificName = events[j].scientificName
          /\ events[i].collectorId = events[j].collectorId
          /\ DayOfYear(events[i].timestampUtc) = DayOfYear(events[j].timestampUtc) )
        => events[i].batchId = events[j].batchId

\* C2: the store holds at most one batch record for a
\* (scientificName, collectorId, dateUtc) triple.
C2_OneBatchPerTriple ==
    \A i, j \in 1..Len(batches) :
        ( /\ batches[i].scientificName = batches[j].scientificName
          /\ batches[i].collectorId = batches[j].collectorId
          /\ batches[i].dateUtc = batches[j].dateUtc )
        => i = j

\* a request is past its batch upsert
PastEnsureBatch(r) == req[r].pc \in {"findBatch", "create"}

\* C3: once a collection request is past its upsert, exactly one batch record
\* has the id it derived, also while another request for the same species,
\* collector and day is in flight; and the upsert never fails a request: a
\* request at the upsert goes on to read the batch.
C3_RaceOneBatch ==
    /\ [](\A r \in Slots :
            PastEnsureBatch(r) => Cardinality(BatchesWithId(req[r].batchId)) = 1)
    /\ [][\A r \in Slots :
            (req[r].pc = "ensureBatch" /\ req'[r] # req[r])
            => req'[r].pc = "findBatch"]_vars

\* two requests that derived the same batch id are both past the upsert
C3_Witness ==
    \E r1, r2 \in Slots :
        /\ r1 # r2
        /\ PastEnsureBatch(r1) /\ PastEnsureBatch(r2)
        /\ req[r1].batchId = req[r2].batchId
        /\ Cardinality(BatchesWithId(req[r1].batchId)) = 1

\* C4: at most one stored event carries a given clientEventId, and every
\* successful response to a request with that clientEventId carries the id of
\* that event.
C4_OneEventPerToken ==
    /\ \A t \in ClientEventIds :
          Truthy(t) => Cardinality(EventsWithToken(t)) <= 1
    /\ ( CollectionSucceeded /\ Truthy(res.body.clientEventId) )
       => \E i \in EventsWithToken(res.body.clientEventId) :
             events[i].id = res.resp.collectionEvent.id

\* a replay is answered with the id of the one stored event of its token,
\* while an event of the other token is stored too
C4_Witness ==
    /\ CollectionAnswered /\ res.resp.status = 200
    /\ Cardinality(EventsWithToken(res.body.clientEventId)) = 1
    /\ \E t \in ClientEventIds :
          Truthy(t) /\ t # res.body.clientEventId /\ EventsWithToken(t) # {}

\* C5: a request whose clientEventId is held by a stored event when it is
\* answered (the loser of a race included) is answered with success and with
\* that event's id, never with an error.
C5_RaceLoserRecovers ==
    ( /\ CollectionAnswered
      /\ Truthy(res.body.clientEventId)
      /\ EventsWithToken(res.body.clientEventId) # {} )
    => /\ res.resp.status \in {200, 201}
       /\ \E i \in EventsWithToken(res.body.clientEventId) :
             events[i].id = res.resp.collectionEvent.id

\* C6: a request that finds a stored event with its clientEventId is answered
\* at once, leaves every collection of the store as it was, and is given the
\* batch id stored on that event.
C6_ReplayFrame ==
    [][\A r \in Slots :
         ( /\ req[r].pc = "idempotency"
           /\ EventsWithToken(req[r].body.clientEventId) # {}
           /\ req'[r] # req[r] )
         => /\ req'[r] = IdleReq
            /\ store' = store
            /\ res'.resp.status = 200
            /\ \E i \in EventsWithToken(req[r].body.clientEventId) :
                  /\ res'.resp.collectionEvent.id = events[i].id
                  /\ res'.resp.batch.id = events[i].batchId]_vars

\* a replay was answered with a batch id that the species code of now no
\* longer derives
C6_Witness ==
    /\ CollectionAnswered /\ res.resp.status = 200
    /\ res.resp.batch.id #
          makeBatchId(speciesCodeFor(res.body.scientificName),
                      res.resp.collectionEvent.timestamp, res.body.collectorId)

\* C7: every collection request without a clientEventId is answered 201 and
\* its event is stored, however many such events are stored already.
C7_TokenlessCreates ==
    ( CollectionAnswered /\ ~Truthy(res.body.clientEventId) )
    => /\ res.resp.status = 201
       /\ \E i \in 1..Len(events) : events[i].id = res.resp.collectionEvent.id

\* C8: no step of a collection request changes a batch record that exists:
\* its species name, collector id, date, phase, gate and QR link stay as they
\* are, also after processing steps and lab tests changed phase and gate.
C8_ExistingBatchUntouched ==
    [][\A r \in Slots :
         ( req[r].kind = "collection" /\ req'[r] # req[r] )
         => /\ Len(batches') >= Len(batches)
            /\ \A i \in 1..Len(batches) : batches'[i] = batches[i]]_vars

\* a request has passed its upsert on a batch whose phase and gate are no
\* longer the initial ones, with nothing else in flight
C8_Witness ==
    \E r \in Slots :
        /\ req[r].pc = "findBatch"
        /\ \A q \in Slots : q # r => req[q] = IdleReq
        /\ Len(batches) = 1
        /\ batches[1].id = req[r].batchId
        /\ batches[1].statusPhase # "CREATED"
        /\ batches[1].qualityGate # "PENDING"

\* C9: a batch record that a step adds to the store has phase CREATED and
\* gate PENDING after that step.
C9_NewBatchCreatedPending ==
    [][\A i \in 1..Len(batches') :
         i > Len(batches)
         => /\ batches'[i].statusPhase = "CREATED"
            /\ batches'[i].qualityGate = "PENDING"]_vars

\* a request has just created the second batch of the store
C9_Witness ==
    \E r \in Slots :
        /\ req[r].pc = "findBatch"
        /\ \A q \in Slots : q # r => req[q] = IdleReq
        /\ Len(batches) = 2 /\ Len(events) = 1
        /\ batches[2].id = req[r].batchId
        /\ batches[2].statusPhase = "CREATED"
        /\ batches[2].qualityGate = "PENDING"

\* C10: when a processing request completes for a batch that exists, the
\* batch's phase is RECEIPT_DONE, DRYING_DONE or GRINDING_DONE for the step
\* types RECEIPT, DRYING and GRINDING, whatever it was, and is what it was for
\* every other step type.
C10_PhaseAfterStep ==
    [][\A r \in Slots :
         ( /\ req[r].pc = "bumpPhase"
           /\ req'[r] # req[r]
           /\ BatchesWithId(req[r].body.batch_id) # {} )
         => \A i \in BatchesWithId(req[r].body.batch_id) :
               LET t == req[r].body.step_type IN
               /\ t = "RECEIPT" => batches'[i].statusPhase = "RECEIPT_DONE"
               /\ t = "DRYING" => batches'[i].statusPhase = "DRYING_DONE"
               /\ t = "GRINDING" => batches'[i].statusPhase = "GRINDING_DONE"
               /\ t \notin {"RECEIPT", "DRYING", "GRINDING"}
                  => batches'[i].statusPhase = batches[i].statusPhase]_vars

\* the lifecycle order of the phases
PhaseOrder == <<"CREATED", "RECEIPT_DONE", "DRYING_DONE", "GRINDING_DONE">>

\* the place of a phase in the lifecycle order, 0 for any other value
PhaseRank(phase) ==
    IF \E k \in 1..Len(PhaseOrder) : PhaseOrder[k] = phase
    THEN CHOOSE k \in 1..Len(PhaseOrder) : PhaseOrder[k] = phase
    ELSE 0

\* C11: no step moves a batch from one of the phases CREATED, RECEIPT_DONE,
\* DRYING_DONE, GRINDING_DONE to an earlier one of them.
C11_PhaseNeverRegresses ==
    [][\A i \in 1..Len(batches) :
         ( PhaseRank(batches[i].statusPhase) # 0
           /\ PhaseRank(batches'[i].statusPhase) # 0 )
         => PhaseRank(batches'[i].statusPhase) >= PhaseRank(batches[i].statusPhase)]_vars

\* C12: for every moisture value, pesticide flag and configured threshold
\* the computed gate is PASS exactly when moisture <= threshold and the flag
\* is true, and FAIL in every other case.
C12_GatePassIff ==
    res.kind = "gate"
    => LET m == res.body.moisture_pct
           t == ThresholdFromEnv(res.body.env)
           pass == ~m.nan /\ ~t.nan /\ m.v <= t.v /\ res.body.pesticide_pass
       IN /\ pass => res.resp.gate = "PASS"
          /\ ~pass => res.resp.gate = "FAIL"

\* a moisture equal to a threshold set by the environment passes
C12_Witness ==
    /\ res.kind = "gate"
    /\ res.body.env # <<>>
    /\ res.body.moisture_pct = Num(10)
    /\ ThresholdFromEnv(res.body.env) = Num(10)
    /\ res.body.pesticide_pass
    /\ res.resp.gate = "PASS"

\* C13: when a lab test request completes for a batch that exists, the
\* batch's stored gate is the gate of that lab test (PASS exactly for a
\* moisture within the threshold and a true pesticide flag), whatever the
\* gate was before, and the stored lab record carries the same gate.
C13_GateOverwritten ==
    [][\A r \in Slots :
         ( /\ req[r].pc = "updateGate"
           /\ req'[r] # req[r]
           /\ BatchesWithId(req[r].body.batch_id) # {} )
         => LET p == req[r].body
                gate == IF p.moisture_pct <= MOISTURE_THRESHOLD_PCT /\ p.pesticide_pass
                        THEN "PASS" ELSE "FAIL"
            IN /\ \A i \in BatchesWithId(p.batch_id) : batches'[i].qualityGate = gate
               /\ \E k \in 1..Len(labTests') :
                     /\ labTests'[k].id = req[r].id
                     /\ labTests'[k].batchId = p.batch_id
                     /\ labTests'[k].gate = gate]_vars

\* the second lab test of a batch has just completed with a gate that is not
\* the first one's, and the batch holds it
C13_Witness ==
    /\ res.kind = "labtest"
    /\ res.resp.status = 201
    /\ Len(labTests) = 2
    /\ labTests[1].batchId = res.body.batch_id
    /\ labTests[2].batchId = res.body.batch_id
    /\ labTests[2].id = res.resp.lab_test.id
    /\ labTests[1].gate # labTests[2].gate
    /\ \A q \in Slots : req[q] = IdleReq
    /\ \E i \in BatchesWithId(res.body.batch_id) :
          batches[i].qualityGate = labTests[2].gate

\* C14: a processing or lab test request that names a batch id no batch
\* record has is answered NOT_FOUND (404), and no processing step and no lab
\* test with that batch id is stored.
C14_UnknownBatchNotFound ==
    ( /\ res.kind \in {"processing", "labtest"}
      /\ BatchesWithId(res.body.batch_id) = {} )
    => /\ res.resp.status = 404
       /\ \A k \in 1..Len(steps) : steps[k].batchId # res.body.batch_id
       /\ \A k \in 1..Len(labTests) : labTests[k].batchId # res.body.batch_id

\* C15: a collection request that lacks a required input (here: the geo) is
\* answered with a validation error (400), not with a server-side failure or
\* a success, and no event of that request is stored.
C15_MissingInputRejected ==
    ( CollectionAnswered /\ ~HasGeo(res.body) )
    => /\ res.resp.status = 400
       /\ EventsWithToken(res.body.clientEventId) = {}

\* the answers of the PATCH endpoints of the anchoring side
ExternalKinds ==
    { "chainStatus", "processingBlockchain", "labtestBlockchain",
      "collectionBlockchain" }

\* C16: a step that answers a PATCH request of the anchoring side with a
\* rejection (400 for a status that is not READY, IN_PROGRESS or COMPLETE in
\* any letter case, 404 for an id that matches no record) leaves every stored
\* record as it was.
C16_RejectedLeavesStore ==
    [][( /\ res'.kind \in ExternalKinds
         /\ res'.resp.status \in {400, 404} )
       => store' = store]_vars

\* a PATCH with a hash for a processing step id that matches no record has
\* been answered 404 while a processing step is stored
C16_Witness ==
    /\ res.kind = "processingBlockchain"
    /\ res.resp.status = 404
    /\ res.body.hash # <<>>
    /\ Len(steps) >= 1
    /\ \A k \in 1..Len(steps) : steps[k].id # res.id

\* C17: for each entity type, a PATCH request of the anchoring side that
\* carries a hash and no status, for a record that exists, is accepted (200)
\* and the hash is stored.
C17_HashOnlyAccepted ==
    ( /\ res.kind \in ExternalKinds
      /\ res.body.status = <<>>
      /\ res.body.hash # <<>>
      /\ \/ res.kind = "chainStatus" /\ res.id \in StoredBatchIds
         \/ res.kind = "collectionBlockchain" /\ res.id \in StoredIds(events)
         \/ res.kind = "processingBlockchain" /\ res.id \in StoredIds(steps)
         \/ res.kind = "labtestBlockchain" /\ res.id \in StoredIds(labTests) )
    => /\ res.resp.status = 200
       /\ res.kind = "chainStatus"
          => \A i \in 1..Len(events) :
                events[i].batchId = res.id => events[i].hash = res.body.hash[1]
       /\ res.kind = "collectionBlockchain"
          => \A i \in 1..Len(events) :
                events[i].id = res.id => events[i].hash = res.body.hash[1]

\* the fields of a collection event that are fixed when it is stored
ImmutableFields ==
    { "id", "clientEventId", "scientificName", "collectorId", "geo",
      "timestampUtc", "batchId" }

Immutable(e) == [ f \in ImmutableFields \cap DOMAIN e |-> e[f] ]

\* C18: no step removes a stored collection event or changes its id, token,
\* species name, collector id, geo, timestamp or batch id, and a step that
\* changes its hash or status is a step of a PATCH request for a batch or a
\* collection event.
C18_EventImmutable ==
    [][/\ Len(events') >= Len(events)
       /\ \A i \in 1..Len(events) :
             /\ Immutable(events'[i]) = Immutable(events[i])
             /\ ( events'[i].hash # events[i].hash
                  \/ events'[i].status # events[i].status )
                => res'.kind \in {"chainStatus", "collectionBlockchain"}]_vars

\* a stored collection event has a hash and a status set by a PATCH request
C18_Witness ==
    /\ res.kind = "collectionBlockchain"
    /\ res.resp.status = 200
    /\ \E i \in 1..Len(events) :
          /\ events[i].id = res.id
          /\ events[i].hash = "0xabc"
          /\ events[i].status = "READY"
          /\ events[i].batchId \in StoredBatchIds

\* the first 2 characters, the token *** and the last character
MaskedForm(s) == SliceTo(s, 2) \o <<"*","*","*">> \o SliceLast(s)

\* C19: in every provenance bundle the collector id of the batch and of each
\* collection event appears as its first 2 characters, ***, and its last
\* character, and never as the stored collector id itself.
C19_CollectorIdsMasked ==
    ( res.kind = "provenance" /\ res.resp.status = 200 )
    => /\ \A i \in BatchesWithId(res.id) :
             /\ res.resp.batch.collector_id_masked = MaskedForm(batches[i].collectorId)
             /\ res.resp.batch.collector_id_masked # batches[i].collectorId
       /\ \A c \in 1..Len(res.resp.collection) :
             \E k \in 1..Len(events) :
                /\ events[k].batchId = res.id
                /\ res.resp.collection[c].collector_id_masked
                      = MaskedForm(events[k].collectorId)
                /\ res.resp.collection[c].collector_id_masked # events[k].collectorId

\* two values hold the same content: equal leaves, arrays of the same
\* content item by item, objects of the same keys with the same content
\* under each key
RECURSIVE SameContent(_, _)
SameContent(x, y) ==
    IF x.t # y.t THEN FALSE
    ELSE CASE x.t = "arr" ->
                /\ Len(x.items) = Len(y.items)
                /\ \A i \in 1..Len(x.items) : SameContent(x.items[i], y.items[i])
           [] x.t = "obj" ->
                /\ { x.entries[i].k : i \in 1..Len(x.entries) }
                     = { y.entries[i].k : i \in 1..Len(y.entries) }
                /\ \A i \in 1..Len(x.entries) :
                      SameContent(x.entries[i].v, ValueAt(y.entries, x.entries[i].k))
           [] OTHER -> x = y

\* C20: two mappings of the same key/value pairs, built in different key
\* insertion orders at any depth, have the same canonical string.
C20_CanonicalOrderFree ==
    res.kind = "canon"
    => \A other \in CanonInputs :
          SameContent(res.body, other) => stableStringify(other) = res.resp

\* a mapping whose keys, on the outside and in a nested object, were
\* inserted in another order than the sorted one
C20_Witness ==
    /\ res.kind = "canon"
    /\ StringLess(res.body.entries[2].k, res.body.entries[1].k)
    /\ res.body.entries[1].v.t = "obj"
    /\ StringLess(res.body.entries[1].v.entries[2].k, res.body.entries[1].v.entries[1].k)
    /\ \E other \in CanonInputs :
          /\ other # res.body
          /\ SameContent(res.body, other)
          /\ stableStringify(other) = res.resp

\* C21: every collection event a creating request has stored carries a hash:
\* the digest of the canonical form of its content is stored, not null.
C21_EventHashStored ==
    \A i \in 1..Len(events) : events[i].hash # Null

\* C22: the collectionEvent of a creating response (201) carries
\* ai = { confidence: c } when the request sent ai_verified_confidence = c,
\* and no ai value (null) when it sent none.
C22_ResponseAi ==
    ( CollectionAnswered /\ res.resp.status = 201 )
    => /\ HasConfidence(res.body)
          => res.resp.collectionEvent.ai
               = [ confidence |-> res.body.ai_verified_confidence ]
       /\ ~HasConfidence(res.body) => res.resp.collectionEvent.ai = NullAi

\* C23: after a chain-status update of an existing batch has succeeded with
\* status S, the stored batch carries chain status S.
C23_ChainStatusStored ==
    ( res.kind = "chainStatus" /\ res.resp.status = 200 )
    => \A i \in BatchesWithId(res.id) :
          /\ "chainStatus" \in DOMAIN batches[i]
          /\ batches[i].chainStatus = res.resp.chain_status

\* white space that delimits the tokens of a name
Whitespace == { " ", "\t" }

\* the characters of s before its first white space
RECURSIVE UntilWhitespace(_)
UntilWhitespace(s) ==
    IF s = <<>> \/ s[1] \in Whitespace THEN <<>>
    ELSE <<s[1]>> \o UntilWhitespace(Tail(s))

\* the first whitespace-delimited token of s
RECURSIVE FirstWhitespaceToken(_)
FirstWhitespaceToken(s) ==
    IF s # <<>> /\ s[1] \in Whitespace THEN FirstWhitespaceToken(Tail(s))
    ELSE UntilWhitespace(s)

\* C24: when no species record exists for the name, the species code is the
\* first whitespace-delimited token of the name, truncated to 5 characters
\* and upper-cased.
C24_FallbackFirstToken ==
    ( res.kind = "code" /\ SpeciesIndex(res.body) = 0 )
    => res.resp = toUpperCase(SliceTo(FirstWhitespaceToken(res.body), 5))

C26_EventMatchesBatch ==
    \A k \in 1..Len(events) :
       \A i \in BatchesWithId(events[k].batchId) :
          /\ batches[i].scientificName = events[k].scientificName
          /\ batches[i].collectorId = events[k].collectorId

\* C27: whenever no request is in flight, a batch in phase CREATED has no
\* stored processing step of type RECEIPT, DRYING or GRINDING that refers
\* to it.
C27_CreatedHasNoStep ==
    ( \A r \in Slots : req[r] = IdleReq )
    => \A i \in 1..Len(batches) :
          batches[i].statusPhase = "CREATED"
          => ~\E k \in 1..Len(steps) :
                 /\ steps[k].batchId = batches[i].id
                 /\ steps[k].stepType \in {"RECEIPT", "DRYING", "GRINDING"}

\* the stored lab tests of a batch, by position (the order of creation)
LabTestsOf(batchId) == { k \in 1..Len(labTests) : labTests[k].batchId = batchId }

\* the most recently created lab test of a batch that has one
LatestLabTest(batchId) ==
    labTests[CHOOSE k \in LabTestsOf(batchId) : \A j \in LabTestsOf(batchId) : j <= k]

\* C28: whenever no request is in flight, the quality gate of a batch that
\* has lab tests recorded after its creation is the gate of its most
\* recently created lab test, also when the lab test requests overlapped.
C28_GateOfLatestLabTest ==
    ( \A r \in Slots : req[r] = IdleReq )
    => \A i \in 1..Len(batches) :
          LabTestsOf(batches[i].id) # {}
          => batches[i].qualityGate = LatestLabTest(batches[i].id).gate

\* C29: the status_phase of the batch in the response of a collection
\* request, creating (201) or replayed (200), is the lifecycle phase stored
\* on that batch when the response is given.
C29_ResponsePhaseStored ==
    [][( /\ \E r \in Slots : req[r].kind = "collection" /\ req'[r] = IdleReq
         /\ res'.kind = "collection"
         /\ res'.resp.status \in {200, 201} )
       => \A i \in 1..Len(batches') :
             batches'[i].id = res'.resp.batch.id
             => batches'[i].statusPhase = res'.resp.batch.status_phase]_vars

\* C30: at startup app.listen is called at most once and only after a call
\* of mongoose.connect has resolved; mongoose.connect is called at most
\* twice, and the alternative URI is tried at most once; in the end the
\* process either listens or has exited.
C30_StartupOnce ==
    /\ [](/\ proc.listens <= 1
          /\ proc.listens = 1 => proc.connected
          /\ proc.attempts <= 2
          /\ proc.attempts = 2 => proc.isRetry /\ proc.hasAlternative)
    /\ <>[](proc.pc \in {"listening", "exited"})

\* the first attempt failed, the one with the alternative URI succeeded, and
\* the server listens
C30_Witness ==
    /\ proc.pc = "listening"
    /\ proc.attempts = 2
    /\ proc.isRetry
    /\ proc.connected
    /\ proc.listens = 1

====
